---- MODULE Spec2Model ----
(***************************************************************************)
(* The agent orchestration engine of ai-audio-transcriber: the turn loop   *)
(* of run_agent (src/agent.py), the start-up sequence of async_main, the   *)
(* background transcription job, and the ToolBox registry the loop calls.  *)
(* The ToolBox class itself is not among the source files; its operations  *)
(* are modelled from the specification (sections 4.1 and 4.2).             *)
(***************************************************************************)
EXTENDS Integers, Sequences, FiniteSets, TLC

VARIABLES
    phase,      \* position of the start-up sequence (module import, async_main)
    setupErr,   \* the registry-construction error that ended the run, or "none"
    cfg,        \* the configuration read at start-up: tool functions found, agents
    cursor,     \* index into the list the current start-up loop walks over
    registry,   \* ToolBox: tool name -> contract
    audioPath,  \* ToolBox: the input artifact reference ("" while unset)
    jobState,   \* the transcription task: Pending, Running, Done, Failed
    jobResult,  \* the task's result (NoText until Done)
    launches,   \* how many times the job body has been launched
    startErr,   \* the failure of the last start(), or "none"
    starts,     \* how many times start() has been called on the handle
    stack,      \* the running engines, root first, innermost last
    engines,    \* number of engines created so far (serial numbers)
    emitted,    \* number of output items and failures the backend has produced
    delivered,  \* the values await_result has returned to its callers, in order
    callers,    \* concurrent callers of await_result outside the engines
    outcome,    \* what the root run_agent returned: [status, text]
    requests    \* backend requests the metered oracle has answered

vars == <<phase, setupErr, cfg, cursor, registry, audioPath, jobState, jobResult,
          launches, startErr, starts, stack, engines, emitted, delivered,
          callers, outcome, requests>>

setupVars == <<phase, setupErr, cfg, cursor, registry, audioPath>>
jobVars == <<jobState, jobResult, launches, startErr, starts>>
runVars == <<stack, engines, emitted, delivered, callers, outcome, requests>>

-----------------------------------------------------------------------------
(* Bounds of the model *)

\* output items and failures the backend produces in one run, over all engines
MaxItems == 3
\* concurrent callers of await_result besides the engines
MaxCallers == 3
\* calls of start() on the job handle
MaxStarts == 3
\* requests the metered oracle answers
MaxRequests == 3

-----------------------------------------------------------------------------
(* Values: texts are sequences of atoms, so that concatenation is \o *)

NoText == << >>

\* a plain string result
Str(s) == [t |-> "str", s |-> s]
\* a structured error result
Err(e) == [t |-> "err", s |-> <<e>>]

\* json.dumps(result): a string is quoted, an error object is serialized
json_dumps(v) ==
    [t |-> "json",
     s |-> IF v.t = "str" THEN <<"\"">> \o v.s \o <<"\"">>
                          ELSE <<"{error:">> \o v.s \o <<"}">>]

\* json.loads(item.arguments): "fail" when the text is no JSON object
json_loads(arg) ==
    CASE arg = "{}" -> [ok |-> TRUE, keys |-> {}, message |-> NoText]
      [] arg = "{\"message\":\"ping\"}" ->
             [ok |-> TRUE, keys |-> {"message"}, message |-> <<"ping">>]
      [] OTHER -> [ok |-> FALSE, keys |-> {}, message |-> NoText]

\* an arguments text that is no JSON
BadArgs == "{bad"

ArgTexts == {"{}", "{\"message\":\"ping\"}", BadArgs}

-----------------------------------------------------------------------------
(* Configuration: the tool functions found in tools/*_tools.py and agents.yaml *)

\* the agent the configuration names as "main"
MainAgent == "coordinator"

AgentNames == {"coordinator", "cleaner"}

\* the tool lists the configuration can give the cleaner; no function and no
\* agent is called summarize, and the third list names the cleaner itself
CleanerTools == { {"get_transcript", "talk_to_user"},
                  {"get_transcript", "summarize"},
                  {"get_transcript", "cleaner"} }

\* agent["tools"] of each configured agent
AgentTools(a) ==
    IF a = "coordinator" THEN {"get_transcript", "talk_to_user", "cleaner"}
                         ELSE cfg.cleaner

\* agent["prompt"]
AgentPrompt(a) == <<"prompt of ", a>>

\* the public functions register_all_tools finds, in the order it finds them
FuncLists ==
    { << [name |-> "talk_to_user", src |-> "coordinator_tools"],
         [name |-> "remove_filler_words", src |-> "cleaner_tools"] >>,
      << [name |-> "talk_to_user", src |-> "coordinator_tools"],
         [name |-> "talk_to_user", src |-> "cleaner_tools"] >>,
      << [name |-> "talk_to_user", src |-> "coordinator_tools"],
         [name |-> "get_transcript", src |-> "transcriber_tools"] >> }

\* the orders in which the configuration can list the agents
AgentOrders == { <<"cleaner", "coordinator">>, <<"coordinator", "cleaner">> }

-----------------------------------------------------------------------------
(* ToolBox: the registry *)

\* the contract tool_box.tool(func) derives from a function
FuncContract(name, src) ==
    [kind |-> IF name = "get_transcript" /\ src = "agent" THEN "job" ELSE "plain",
     src |-> src,
     required |-> IF name = "get_transcript" THEN {} ELSE {"message"},
     optional |-> {}]

\* the contract registerAgentAsTool synthesizes: one optional free-text message
AgentContract(a) ==
    [kind |-> "agent", src |-> a, required |-> {}, optional |-> {"message"}]

Names(reg) == DOMAIN reg

\* register(tool), mutated: a second registration replaces the first
RegisterOverwrite(reg, name, contract) ==
    [reg |-> [n \in Names(reg) \cup {name} |->
                 IF n = name THEN contract ELSE reg[n]],
     err |-> "none"]

\* register(tool): fails with DuplicateToolName if the name already exists
Register(reg, name, contract) ==
    IF name \in Names(reg)
    THEN [reg |-> reg, err |-> "DuplicateToolName"]
    ELSE [reg |-> [n \in Names(reg) \cup {name} |->
                      IF n = name THEN contract ELSE reg[n]],
          err |-> "none"]

\* registerAgentAsTool without the look at the agent's tool names
RegisterAgentAsToolUnchecked(reg, a) ==
    Register(reg, a, AgentContract(a))

\* registerAgentAsTool that lets a tool name pass if it is a configured agent
RegisterAgentAsToolLenient(reg, a) ==
    IF ~(AgentTools(a) \subseteq (Names(reg) \cup AgentNames))
    THEN [reg |-> reg, err |-> "UnknownAgent"]
    ELSE Register(reg, a, AgentContract(a))

\* registerAgentAsTool that counts the agent's own name as present
RegisterAgentAsToolSelfOk(reg, a) ==
    IF ~(AgentTools(a) \subseteq (Names(reg) \cup {a}))
    THEN [reg |-> reg, err |-> "UnknownAgent"]
    ELSE Register(reg, a, AgentContract(a))

\* registerAgentAsTool(agent, runner): UnknownAgent if a tool name is absent
RegisterAgentAsTool(reg, a) ==
    IF ~(AgentTools(a) \subseteq Names(reg))
    THEN [reg |-> reg, err |-> "UnknownAgent"]
    ELSE Register(reg, a, AgentContract(a))

\* resolve(names): UnknownTool if any name is absent
Resolve(reg, names) ==
    IF names \subseteq Names(reg)
    THEN [ok |-> TRUE, tools |-> names]
    ELSE [ok |-> FALSE, tools |-> {}]

\* parsed arguments against the contract's schema
ArgsMatch(contract, parsed) ==
    /\ contract.required \subseteq parsed.keys
    /\ parsed.keys \subseteq contract.required \cup contract.optional

-----------------------------------------------------------------------------
(* The background transcription job *)

\* what load_audio_file can return: a transcript, or one of its error texts
JobTexts ==
    { <<"hello world">>,
      <<"Error: File not found at ", "audio.mp3">>,
      <<"Transcription error: ", "decode">> }

\* start(work) on a handle that was started before
StartRelaunch(st, n) == [state |-> "Running", launches |-> n + 1, err |-> "none"]

\* start(work): launches work once; a second call fails with AlreadyStarted
Start(st, n) ==
    IF st = "Pending"
    THEN [state |-> "Running", launches |-> n + 1, err |-> "none"]
    ELSE [state |-> st, launches |-> n, err |-> "AlreadyStarted"]

\* await_result() once the job has ended: the memoized result, or JobFailed
AwaitResult(st, res) ==
    IF st = "Done" THEN Str(res) ELSE Err("JobFailed")

-----------------------------------------------------------------------------
(* Engines: one frame per running run_agent call *)

NoResp == << >>

\* a history entry; own is the serial number of the engine that appended it
Entry(kind, id, name, val, own) ==
    [kind |-> kind, id |-> id, name |-> name, val |-> val, own |-> own]

\* run_agent going on from the history of the engine that called it
FreshHistoryShared(a, message, eng) ==
    (IF stack = << >> THEN << >> ELSE stack[Len(stack)].history)
    \o <<Entry("system", 0, a, Str(AgentPrompt(a)), eng)>>
    \o (IF message = NoText THEN << >>
        ELSE <<Entry("user", 0, "", Str(message), eng)>>)

\* run_agent's fresh history: the system prompt and, if given, the message
FreshHistory(a, message, eng) ==
    <<Entry("system", 0, a, Str(AgentPrompt(a)), eng)>>
    \o (IF message = NoText THEN << >>
        ELSE <<Entry("user", 0, "", Str(message), eng)>>)

\* run_agent, mutated: it fetches the transcript before it asks the backend
NewFrameEager(a, message, eng) ==
    [eng |-> eng, agent |-> a, history |-> FreshHistory(a, message, eng),
     pc |-> "items", sent |-> << >>,
     resp |-> <<Entry("function_call", 1, "get_transcript", Str(<<"{}">>), eng)>>,
     idx |-> 1, mark |-> 0]

NewFrame(a, message, eng) ==
    [eng |-> eng, agent |-> a, history |-> FreshHistory(a, message, eng),
     pc |-> "request", sent |-> << >>, resp |-> NoResp, idx |-> 0, mark |-> 0]

Depth == Len(stack)
Top == stack[Depth]

NoOutcome == [status |-> "none", text |-> NoText]

-----------------------------------------------------------------------------
(* Start-up: module import of agent.py, then async_main *)

Init ==
    /\ phase = "import"
    /\ setupErr = "none"
    /\ cfg \in [funcs : FuncLists, agents : AgentOrders, cleaner : CleanerTools]
    /\ cursor = 0
    /\ registry = << >>
    /\ audioPath = ""
    /\ jobState = "Pending"
    /\ jobResult = NoText
    /\ launches = 0
    /\ startErr = "none"
    /\ starts = 0
    /\ stack = << >>
    /\ engines = 0
    /\ emitted = 0
    /\ delivered = << >>
    /\ callers = [k \in 1..MaxCallers |-> "idle"]
    /\ requests = 0
    /\ outcome = NoOutcome

\* tool_box.tool(get_transcript)
RegisterBuiltin ==
    /\ phase = "import"
    /\ LET r == Register(registry, "get_transcript",
                         FuncContract("get_transcript", "agent"))
       IN /\ registry' = r.reg
          /\ setupErr' = r.err
          /\ phase' = IF r.err = "none" THEN "modules" ELSE "failed"
    /\ cursor' = 1
    /\ UNCHANGED <<cfg, audioPath>>
    /\ UNCHANGED <<jobVars, runVars>>

\* tools.register_all_tools(tool_box): one tool_box.tool(obj) of its loop
RegisterModuleTool ==
    /\ phase = "modules"
    /\ LET f == cfg.funcs[cursor]
           r == Register(registry, f.name, FuncContract(f.name, f.src))
       IN /\ registry' = r.reg
          /\ setupErr' = r.err
          /\ phase' = IF r.err # "none" THEN "failed"
                      ELSE IF cursor = Len(cfg.funcs) THEN "set_path"
                      ELSE "modules"
    /\ cursor' = cursor + 1
    /\ UNCHANGED <<cfg, audioPath>>
    /\ UNCHANGED <<jobVars, runVars>>

\* tool_box.set_audio_path(str(audio_path))
SetAudioPath ==
    /\ phase = "set_path"
    /\ audioPath' = "audio.mp3"
    /\ phase' = "start"
    /\ UNCHANGED <<setupErr, cfg, cursor, registry>>
    /\ UNCHANGED <<jobVars, runVars>>

\* async_main that leaves the transcription unstarted when the agents start
StartJobSkipped ==
    /\ phase = "start"
    /\ phase' = "agents"
    /\ cursor' = 1
    /\ UNCHANGED <<setupErr, cfg, registry, audioPath>>
    /\ UNCHANGED <<jobVars, runVars>>

\* asyncio.create_task(asyncio.to_thread(_run_transcription, ...)) and
\* tool_box.set_transcription_task(transcription_task)
StartJob ==
    /\ phase = "start"
    /\ LET r == Start(jobState, launches)
       IN /\ jobState' = r.state
          /\ launches' = r.launches
          /\ startErr' = r.err
    /\ starts' = starts + 1
    /\ phase' = "agents"
    /\ cursor' = 1
    /\ UNCHANGED <<setupErr, cfg, registry, audioPath, jobResult>>
    /\ UNCHANGED runVars

\* add_agent_tools: one tool_box.add_agent_tool(agent, run_agent) of its loop
AddAgentTool ==
    /\ phase = "agents"
    /\ LET r == RegisterAgentAsTool(registry, cfg.agents[cursor])
       IN /\ registry' = r.reg
          /\ setupErr' = r.err
          /\ phase' = IF r.err # "none" THEN "failed"
                      ELSE IF cursor = Len(cfg.agents) THEN "launch"
                      ELSE "agents"
    /\ cursor' = cursor + 1
    /\ UNCHANGED <<cfg, audioPath>>
    /\ UNCHANGED <<jobVars, runVars>>

\* await run_agent(agents[main_agent], tool_box, None): the root engine starts
RunMain ==
    /\ phase = "launch"
    /\ LET r == Resolve(registry, AgentTools(MainAgent))
       IN IF r.ok
          THEN /\ phase' = "run"
               /\ stack' = <<NewFrame(MainAgent, NoText, 1)>>
               /\ engines' = 1
               /\ UNCHANGED setupErr
          ELSE /\ phase' = "failed"
               /\ setupErr' = "UnknownTool"
               /\ UNCHANGED <<stack, engines>>
    /\ UNCHANGED <<cfg, cursor, registry, audioPath>>
    /\ UNCHANGED <<emitted, delivered, callers, outcome, requests>>
    /\ UNCHANGED jobVars

\* the transcription body runs to its end whenever it is asked to, again too
JobFinishAgain ==
    /\ jobState \in {"Running", "Done"}
    /\ \E v \in JobTexts :
          /\ jobState' = "Done"
          /\ jobResult' = v
    /\ UNCHANGED <<launches, startErr, starts>>
    /\ UNCHANGED <<setupVars, runVars>>

\* the transcription thread ends, and an exception of load_audio_file may
\* leave it
JobFinishRaises ==
    /\ jobState = "Running"
    /\ \/ \E v \in JobTexts :
             /\ jobState' = "Done"
             /\ jobResult' = v
       \/ /\ jobState' = "Failed"
          /\ jobResult' = NoText
    /\ UNCHANGED <<launches, startErr, starts>>
    /\ UNCHANGED <<setupVars, runVars>>

\* the transcription thread ends: load_audio_file returned a text
JobFinish ==
    /\ jobState = "Running"
    /\ \E v \in JobTexts :
          /\ jobState' = "Done"
          /\ jobResult' = v
    /\ UNCHANGED <<launches, startErr, starts>>
    /\ UNCHANGED <<setupVars, runVars>>

\* a repeated start(work) on the handle
StartAgain ==
    /\ jobState # "Pending"
    /\ starts < MaxStarts
    /\ LET r == Start(jobState, launches)
       IN /\ jobState' = r.state
          /\ launches' = r.launches
          /\ startErr' = r.err
    /\ starts' = starts + 1
    /\ UNCHANGED jobResult
    /\ UNCHANGED <<setupVars, runVars>>

-----------------------------------------------------------------------------
(* The reasoning backend: one response is any sequence of output items *)

MessageTexts == {"a", "b"}

\* what the backend can put in one output item when it answers agent a
ItemChoices(a) ==
    [kind : {"function_call"}, name : AgentTools(a) \ {"get_transcript"},
     text : {<<x>> : x \in ArgTexts \ {BadArgs}}]
    \cup [kind : {"function_call"}, name : {"get_transcript"}, text : {<<"{}">>}]
    \cup [kind : {"function_call"}, name : {"talk_to_user"}, text : {<<BadArgs>>}]
    \cup [kind : {"message"}, name : {""}, text : {<<x>> : x \in MessageTexts}]
    \cup [kind : {"reasoning", "other"}, name : {""}, text : {NoText}]

IsCall(e) == e.kind = "function_call"

RECURSIVE CountCalls(_)
CountCalls(h) ==
    IF h = << >> THEN 0
    ELSE (IF IsCall(h[Len(h)]) THEN 1 ELSE 0) + CountCalls(SubSeq(h, 1, Len(h) - 1))

\* response.output: the chosen items; the backend numbers its calls itself
MakeResponse(shape, base, eng) ==
    [k \in 1..Len(shape) |->
        Entry(shape[k].kind,
              IF shape[k].kind = "function_call"
              THEN base + CountCalls(SubSeq(shape, 1, k)) ELSE 0,
              shape[k].name,
              Str(shape[k].text),
              eng)]

RECURSIVE JoinMessages(_)
JoinMessages(r) ==
    IF r = << >> THEN NoText
    ELSE (IF r[1].kind = "message" THEN r[1].val.s ELSE NoText)
         \o JoinMessages(Tail(r))

\* response.output_text: the texts of all message items of the response, joined
OutputText(r) == JoinMessages(r)

-----------------------------------------------------------------------------
(* run_agent: the turn loop *)

\* history.append({"type": "function_call_output", ...}) without the call's id
AppendResultNoId(f, id, result) ==
    [f EXCEPT !.history =
        @ \o <<Entry("function_call_output", 0, "", json_dumps(result), f.eng)>>]

\* history.append of the raw result
AppendResultRaw(f, id, result) ==
    [f EXCEPT !.history =
        @ \o <<Entry("function_call_output", id, "", result, f.eng)>>]

\* the result is put right behind its call instead of at the end of history
AppendResultBehindCall(f, id, result) ==
    LET h == f.history
        i == CHOOSE k \in 1..Len(h) : IsCall(h[k]) /\ h[k].id = id
    IN [f EXCEPT !.history =
           SubSeq(h, 1, i)
           \o <<Entry("function_call_output", id, "", json_dumps(result), f.eng)>>
           \o SubSeq(h, i + 1, Len(h))]

\* history.append({"type": "function_call_output", "call_id": ..., "output": ...})
AppendResult(f, id, result) ==
    [f EXCEPT !.history =
        @ \o <<Entry("function_call_output", id, "", json_dumps(result), f.eng)>>]

\* the loop steps over an item without looking at it
AdvanceSkip(f) ==
    IF f.idx + 1 >= Len(f.resp) THEN [f EXCEPT !.pc = "request"]
    ELSE [f EXCEPT !.pc = "items", !.idx = @ + 2]

\* the for loop moves to the next item, or the while loop to the next request
\* the loop with a step limit: after two requests it ends
AdvanceLimited(f) ==
    IF f.idx = Len(f.resp)
    THEN [f EXCEPT !.pc = IF requests >= 2 THEN "complete" ELSE "request"]
    ELSE [f EXCEPT !.pc = "items", !.idx = @ + 1]

Advance(f) ==
    IF f.idx = Len(f.resp) THEN [f EXCEPT !.pc = "request"]
    ELSE [f EXCEPT !.pc = "items", !.idx = @ + 1]

SetTop(f) == [stack EXCEPT ![Depth] = f]

Running == phase = "run" /\ Depth > 0
AtItem(kind) ==
    /\ Running
    /\ Top.pc = "items"
    /\ Top.resp[Top.idx].kind = kind
Item == Top.resp[Top.idx]
Parsed == json_loads(Item.val.s[1])
Contract == registry[Item.name]

\* the response is iterated but was never added to history
RespondUnrecorded(f, resp) ==
    [f EXCEPT !.sent = f.history,
              !.resp = resp,
              !.mark = Len(f.history) + Len(resp),
              !.idx = 1,
              !.pc = IF resp = << >> THEN "request" ELSE "items"]

\* the request, mutated: it carries only what was appended since the last one
RespondDelta(f, resp) ==
    [f EXCEPT !.sent = SubSeq(f.history, Len(f.sent) + 1, Len(f.history)),
              !.history = @ \o resp, !.resp = resp,
              !.mark = Len(f.history) + Len(resp),
              !.idx = 1,
              !.pc = IF resp = << >> THEN "request" ELSE "items"]

\* input=history goes out as the request; history += response.output
Respond(f, resp) ==
    [f EXCEPT !.sent = f.history,
              !.history = @ \o resp, !.resp = resp,
              !.mark = Len(f.history) + Len(resp),
              !.idx = 1,
              !.pc = IF resp = << >> THEN "request" ELSE "items"]

\* client.responses.create(input=history, ...) returns; history += response.output
BackendRespond ==
    /\ Running
    /\ Top.pc = "request"
    /\ \E n \in 0..(MaxItems - emitted) :
         \E shape \in [1..n -> ItemChoices(Top.agent)] :
            /\ stack' = SetTop(Respond(Top,
                            MakeResponse(shape, CountCalls(Top.history), Top.eng)))
            /\ emitted' = emitted + n
    /\ UNCHANGED <<engines, delivered, outcome>>
    /\ UNCHANGED <<setupVars, jobVars, callers, requests>>

\* an exception leaves run_agent: the root run ends; a nested run fails inside
\* run_tool, which turns the failure into a structured error for the parent
Abort ==
    IF Depth = 1
    THEN /\ stack' = SetTop([Top EXCEPT !.pc = "aborted"])
         /\ outcome' = [status |-> "aborted", text |-> NoText]
    ELSE LET parent == stack[Depth - 1]
             call == parent.resp[parent.idx]
         IN /\ stack' = [SubSeq(stack, 1, Depth - 1) EXCEPT ![Depth - 1] =
                           Advance(AppendResult(parent, call.id,
                                                Err("ToolExecutionError")))]
            /\ UNCHANGED outcome

\* the error run_tool makes of a BackendError that left the tool body
BackendErrorInTool == "ToolExecutionError(BackendError)"

\* client.responses.create raises, swallowed: run_agent returns an empty text
BackendFailReturnsEmpty ==
    /\ Running
    /\ Top.pc = "request"
    /\ IF Depth = 1
       THEN /\ stack' = SetTop([Top EXCEPT !.pc = "complete"])
            /\ outcome' = [status |-> "complete", text |-> NoText]
       ELSE LET parent == stack[Depth - 1]
                call == parent.resp[parent.idx]
            IN /\ stack' = [SubSeq(stack, 1, Depth - 1) EXCEPT ![Depth - 1] =
                              Advance(AppendResult(parent, call.id, Str(NoText)))]
               /\ UNCHANGED outcome
    /\ emitted < MaxItems
    /\ emitted' = emitted + 1
    /\ UNCHANGED <<engines, delivered>>
    /\ UNCHANGED <<setupVars, jobVars, callers, requests>>

\* client.responses.create raises (BackendError): nothing in run_agent catches
\* it; the root run ends, a nested run fails inside the parent's run_tool, which
\* turns the failure of the tool body into a structured error
BackendFail ==
    /\ Running
    /\ Top.pc = "request"
    /\ IF Depth = 1
       THEN /\ stack' = SetTop([Top EXCEPT !.pc = "backend_error"])
            /\ outcome' = [status |-> "backend_error", text |-> NoText]
       ELSE LET parent == stack[Depth - 1]
                call == parent.resp[parent.idx]
            IN /\ stack' = [SubSeq(stack, 1, Depth - 1) EXCEPT ![Depth - 1] =
                              Advance(AppendResult(parent, call.id,
                                                   Err(BackendErrorInTool)))]
               /\ UNCHANGED outcome
    /\ emitted < MaxItems
    /\ emitted' = emitted + 1
    /\ UNCHANGED <<engines, delivered>>
    /\ UNCHANGED <<setupVars, jobVars, callers, requests>>

\* json.loads(item.arguments) raises: nothing in run_agent catches it
CallArgsUnparseable ==
    /\ AtItem("function_call")
    /\ ~Parsed.ok
    /\ Abort
    /\ UNCHANGED <<engines, emitted, delivered>>
    /\ UNCHANGED <<setupVars, jobVars, callers, requests>>

\* run_tool: the arguments do not match the schema (InvalidArguments)
CallInvalidArguments ==
    /\ AtItem("function_call")
    /\ Parsed.ok
    /\ ~ArgsMatch(Contract, Parsed)
    /\ stack' = SetTop(Advance(AppendResult(Top, Item.id, Err("InvalidArguments"))))
    /\ UNCHANGED <<engines, emitted, delivered, outcome>>
    /\ UNCHANGED <<setupVars, jobVars, callers, requests>>

\* run_tool on a plain function: its result, or the failure its body raised
CallPlainTool ==
    /\ AtItem("function_call")
    /\ Parsed.ok
    /\ ArgsMatch(Contract, Parsed)
    /\ Contract.kind = "plain"
    /\ \E result \in {Str(<<"reply">>), Err("ToolExecutionError")} :
          stack' = SetTop(Advance(AppendResult(Top, Item.id, result)))
    /\ UNCHANGED <<engines, emitted, delivered, outcome>>
    /\ UNCHANGED <<setupVars, jobVars, callers, requests>>

\* get_transcript answering at once with whatever the job has so far
CallJobToolNoWait ==
    /\ AtItem("function_call")
    /\ Parsed.ok
    /\ ArgsMatch(Contract, Parsed)
    /\ Contract.kind = "job"
    /\ stack' = SetTop(Advance(AppendResult(Top, Item.id, Str(jobResult))))
    /\ delivered' = Append(delivered, [val |-> Str(jobResult), blocked |-> FALSE])
    /\ UNCHANGED <<engines, emitted, outcome>>
    /\ UNCHANGED <<setupVars, jobVars, callers, requests>>

\* get_transcript that launches a transcription of its own and puts the new
\* task in place of the one set at start-up
CallJobToolRestarts ==
    /\ AtItem("function_call")
    /\ Parsed.ok
    /\ ArgsMatch(Contract, Parsed)
    /\ Contract.kind = "job"
    /\ jobState' = "Running"
    /\ jobResult' = NoText
    /\ launches' = launches + 1
    /\ starts' = starts + 1
    /\ stack' = SetTop([Top EXCEPT !.pc = "await_job"])
    /\ UNCHANGED <<startErr, engines, emitted, delivered, outcome>>
    /\ UNCHANGED <<setupVars, callers, requests>>

\* get_transcript: await tool_box.get_transcript(), the job still running or over
CallJobTool ==
    /\ AtItem("function_call")
    /\ Parsed.ok
    /\ ArgsMatch(Contract, Parsed)
    /\ Contract.kind = "job"
    /\ IF jobState \in {"Done", "Failed"}
       THEN /\ stack' = SetTop(Advance(AppendResult(Top, Item.id,
                                         AwaitResult(jobState, jobResult))))
            /\ delivered' = Append(delivered,
                               [val |-> AwaitResult(jobState, jobResult),
                                blocked |-> FALSE])
       ELSE /\ stack' = SetTop([Top EXCEPT !.pc = "await_job"])
            /\ UNCHANGED delivered
    /\ UNCHANGED <<engines, emitted, outcome>>
    /\ UNCHANGED <<setupVars, jobVars, callers, requests>>

\* the blocked get_transcript resumes once the job has ended
JobToolReturn ==
    /\ Running
    /\ Top.pc = "await_job"
    /\ jobState \in {"Done", "Failed"}
    /\ stack' = SetTop(Advance(AppendResult(Top, Item.id,
                                  AwaitResult(jobState, jobResult))))
    /\ delivered' = Append(delivered,
                       [val |-> AwaitResult(jobState, jobResult), blocked |-> TRUE])
    /\ UNCHANGED <<engines, emitted, outcome>>
    /\ UNCHANGED <<setupVars, jobVars, callers, requests>>

\* a delegating call handed to the event loop and not awaited: the parent goes
\* on with its next item while the nested engine runs
CallAgentToolNoWait ==
    /\ AtItem("function_call")
    /\ Parsed.ok
    /\ ArgsMatch(Contract, Parsed)
    /\ Contract.kind = "agent"
    /\ engines' = engines + 1
    /\ stack' = Append(SetTop(Advance(Top)),
                       NewFrame(Contract.src, Parsed.message, engines + 1))
    /\ UNCHANGED <<emitted, delivered, outcome>>
    /\ UNCHANGED <<setupVars, jobVars, callers, requests>>

\* an agent tool: run_agent(agent, tool_box, message) starts inside run_tool
CallAgentTool ==
    /\ AtItem("function_call")
    /\ Parsed.ok
    /\ ArgsMatch(Contract, Parsed)
    /\ Contract.kind = "agent"
    /\ IF Resolve(registry, AgentTools(Contract.src)).ok
       THEN /\ stack' = Append(SetTop([Top EXCEPT !.pc = "delegating"]),
                               NewFrame(Contract.src, Parsed.message, engines + 1))
            /\ engines' = engines + 1
       ELSE /\ stack' = SetTop(Advance(AppendResult(Top, Item.id,
                                         Err("ToolExecutionError"))))
            /\ UNCHANGED engines
    /\ UNCHANGED <<emitted, delivered, outcome>>
    /\ UNCHANGED <<setupVars, jobVars, callers, requests>>

\* return response.output_text: to the caller of the root, or to the parent's
\* run_tool, whose result the parent appends
ItemMessage ==
    /\ AtItem("message")
    /\ IF Depth = 1
       THEN /\ stack' = SetTop([Top EXCEPT !.pc = "complete"])
            /\ outcome' = [status |-> "complete", text |-> OutputText(Top.resp)]
       ELSE LET parent == stack[Depth - 1]
                call == parent.resp[parent.idx]
            IN /\ stack' = [SubSeq(stack, 1, Depth - 1) EXCEPT ![Depth - 1] =
                              Advance(AppendResult(parent, call.id,
                                                   Str(OutputText(Top.resp))))]
               /\ UNCHANGED outcome
    /\ UNCHANGED <<engines, emitted, delivered>>
    /\ UNCHANGED <<setupVars, jobVars, callers, requests>>

\* a reasoning item: printed, nothing else
ItemReasoning ==
    /\ AtItem("reasoning")
    /\ stack' = SetTop(Advance(Top))
    /\ UNCHANGED <<engines, emitted, delivered, outcome>>
    /\ UNCHANGED <<setupVars, jobVars, callers, requests>>

\* an item of a type the loop does not know raises
ItemOtherRaises ==
    /\ AtItem("other")
    /\ Abort
    /\ UNCHANGED <<engines, emitted, delivered>>
    /\ UNCHANGED <<setupVars, jobVars, callers, requests>>

\* an item of another kind: printed to stderr, nothing else
ItemOther ==
    /\ AtItem("other")
    /\ stack' = SetTop(Advance(Top))
    /\ UNCHANGED <<engines, emitted, delivered, outcome>>
    /\ UNCHANGED <<setupVars, jobVars, callers, requests>>

-----------------------------------------------------------------------------
(* Callers of await_result that run side by side, and a scripted backend *)

\* caller k calls await_result(): the memoized result, or it blocks
CallerAwait(k) ==
    /\ callers[k] = "idle"
    /\ jobState # "Pending"
    /\ IF jobState \in {"Done", "Failed"}
       THEN /\ callers' = [callers EXCEPT ![k] = "done"]
            /\ delivered' = Append(delivered,
                               [val |-> AwaitResult(jobState, jobResult),
                                blocked |-> FALSE])
       ELSE /\ callers' = [callers EXCEPT ![k] = "waiting"]
            /\ UNCHANGED delivered
    /\ UNCHANGED <<stack, engines, emitted, outcome, requests>>
    /\ UNCHANGED <<setupVars, jobVars>>

\* the blocked caller k resumes once the job has ended
CallerResume(k) ==
    /\ callers[k] = "waiting"
    /\ jobState \in {"Done", "Failed"}
    /\ callers' = [callers EXCEPT ![k] = "done"]
    /\ delivered' = Append(delivered,
                       [val |-> AwaitResult(jobState, jobResult), blocked |-> TRUE])
    /\ UNCHANGED <<stack, engines, emitted, outcome, requests>>
    /\ UNCHANGED <<setupVars, jobVars>>

\* the tool_results of a history, in order
Results(h) == SelectSeq(h, LAMBDA e : e.kind = "function_call_output")

\* reasoning items a scripted response may start with
Preambles == { << >>, <<[kind |-> "reasoning", name |-> "", text |-> NoText]>> }

\* the scripted oracle: first a call of the tool that awaits the job, then,
\* once the history holds its result, the message "done: <result>"
ScriptedShapes(h) ==
    IF Results(h) = << >>
    THEN {pre \o <<[kind |-> "function_call", name |-> "get_transcript",
                    text |-> <<"{}">>]>> : pre \in Preambles}
    ELSE {pre \o <<[kind |-> "message", name |-> "",
                    text |-> <<"done: ">> \o Results(h)[Len(Results(h))].val.s]>> :
             pre \in Preambles}

\* client.responses.create answered by the scripted oracle
ScriptedRespond ==
    /\ Running
    /\ Top.pc = "request"
    /\ \E shape \in ScriptedShapes(Top.history) :
          stack' = SetTop(Respond(Top,
                      MakeResponse(shape, CountCalls(Top.history), Top.eng)))
    /\ UNCHANGED <<engines, emitted, delivered, outcome>>
    /\ UNCHANGED <<setupVars, jobVars, callers, requests>>

\* the responses of the metered oracle: none with more than two items
LoopShapes ==
    { << >>,
      << [kind |-> "reasoning", name |-> "", text |-> NoText] >>,
      << [kind |-> "other", name |-> "", text |-> NoText] >>,
      << [kind |-> "function_call", name |-> "talk_to_user",
          text |-> <<"{\"message\":\"ping\"}">>] >>,
      << [kind |-> "message", name |-> "", text |-> <<"a">>] >>,
      << [kind |-> "function_call", name |-> "talk_to_user",
          text |-> <<"{\"message\":\"ping\"}">>],
         [kind |-> "message", name |-> "", text |-> <<"b">>] >> }

\* client.responses.create answered by the metered oracle, which counts
LoopRespond ==
    /\ Running
    /\ Top.pc = "request"
    /\ requests < MaxRequests
    /\ \E shape \in LoopShapes :
          stack' = SetTop(Respond(Top,
                      MakeResponse(shape, CountCalls(Top.history), Top.eng)))
    /\ requests' = requests + 1
    /\ UNCHANGED <<engines, emitted, delivered, outcome>>
    /\ UNCHANGED <<setupVars, jobVars, callers>>

-----------------------------------------------------------------------------

Setup ==
    \/ RegisterBuiltin
    \/ RegisterModuleTool
    \/ SetAudioPath
    \/ StartJob
    \/ AddAgentTool
    \/ RunMain

Next ==
    \/ RegisterBuiltin
    \/ RegisterModuleTool
    \/ SetAudioPath
    \/ StartJob
    \/ AddAgentTool
    \/ RunMain
    \/ JobFinish
    \/ BackendRespond
    \/ BackendFail
    \/ CallArgsUnparseable
    \/ CallInvalidArguments
    \/ CallPlainTool
    \/ CallJobTool
    \/ JobToolReturn
    \/ CallAgentTool
    \/ ItemMessage
    \/ ItemReasoning
    \/ ItemOther

Spec == Init /\ [][Next]_vars

\* the job handle under callers that run side by side and repeated start()
JobNext ==
    \/ RegisterBuiltin
    \/ RegisterModuleTool
    \/ SetAudioPath
    \/ StartJob
    \/ AddAgentTool
    \/ RunMain
    \/ JobFinish
    \/ StartAgain
    \/ \E k \in 1..MaxCallers : CallerAwait(k)
    \/ \E k \in 1..MaxCallers : CallerResume(k)

JobSpec == Init /\ [][JobNext]_vars

EngineStep ==
    \/ CallJobTool
    \/ JobToolReturn
    \/ ItemMessage
    \/ ItemReasoning

\* the root engine against the scripted oracle
ScriptNext ==
    \/ RegisterBuiltin
    \/ RegisterModuleTool
    \/ SetAudioPath
    \/ StartJob
    \/ AddAgentTool
    \/ RunMain
    \/ JobFinish
    \/ ScriptedRespond
    \/ CallJobTool
    \/ JobToolReturn
    \/ ItemMessage
    \/ ItemReasoning

\* the event loop runs whatever is ready, the transcription thread runs to its
\* end, and the oracle answers every request
ScriptSpec ==
    /\ Init
    /\ [][ScriptNext]_vars
    /\ WF_vars(Setup)
    /\ WF_vars(JobFinish)
    /\ WF_vars(ScriptedRespond)
    /\ WF_vars(EngineStep)

LoopEngineStep ==
    \/ CallPlainTool
    \/ ItemMessage
    \/ ItemReasoning
    \/ ItemOther

\* the root engine against the metered oracle
LoopNext ==
    \/ RegisterBuiltin
    \/ RegisterModuleTool
    \/ SetAudioPath
    \/ StartJob
    \/ AddAgentTool
    \/ RunMain
    \/ JobFinish
    \/ LoopRespond
    \/ CallPlainTool
    \/ ItemMessage
    \/ ItemReasoning
    \/ ItemOther

\* the event loop runs whatever is ready; nothing makes the backend answer
LoopSpec ==
    /\ Init
    /\ [][LoopNext]_vars
    /\ WF_vars(Setup)
    /\ WF_vars(LoopEngineStep)

-----------------------------------------------------------------------------
(* What the claims speak of *)

RECURSIVE IdsOf(_, _)
\* the ids of the entries of one kind, in the order they stand in h
IdsOf(h, kind) ==
    IF h = << >> THEN << >>
    ELSE (IF h[1].kind = kind THEN <<h[1].id>> ELSE << >>) \o IdsOf(Tail(h), kind)

CallIds(h) == IdsOf(h, "function_call")
ResultIds(h) == IdsOf(h, "function_call_output")

\* the entries an engine appended after the items of its latest response
SinceResponse(f) == SubSeq(f.history, f.mark + 1, Len(f.history))

\* how many items of its latest response an engine has dealt with
Processed(f) ==
    IF f.pc \in {"request", "backend_error"} THEN Len(f.resp) ELSE f.idx - 1

RECURSIVE BeforeFirstMessage(_)
BeforeFirstMessage(r) ==
    IF r = << >> \/ r[1].kind = "message" THEN << >>
    ELSE <<r[1]>> \o BeforeFirstMessage(Tail(r))

\* the engine is about to send a request that is not its first
AtLaterRequest(f) == f.pc = "request" /\ f.mark > 0

\* the engine is through with its latest response
ThroughResponse(f) == f.mark > 0 /\ f.pc \in {"request", "complete"}

Frames == {stack[d] : d \in 1..Depth}

\* C1: at every backend request after the first, in every engine, each
\* tool_call of the history sent has exactly one tool_result with its callId,
\* later in the history, and no tool_result carries another callId.
C1_CallsAnsweredAtRequest ==
    \A f \in Frames :
        AtLaterRequest(f) =>
            LET h == f.history
                answers(i) == {j \in 1..Len(h) :
                                  /\ h[j].kind = "function_call_output"
                                  /\ h[j].id = h[i].id}
            IN /\ \A i \in 1..Len(h) :
                     IsCall(h[i]) =>
                        /\ Cardinality(answers(i)) = 1
                        /\ \A j \in answers(i) : j > i
               /\ \A j \in 1..Len(h) :
                     h[j].kind = "function_call_output" =>
                        \E i \in 1..(j - 1) : IsCall(h[i]) /\ h[i].id = h[j].id

\* a nested engine sends a later request with two answered calls in its history
C1_Witness ==
    \E f \in Frames :
        AtLaterRequest(f) /\ Len(CallIds(f.history)) >= 2 /\ f.agent = "cleaner"

\* C2 as stated: whatever the mixture and order of the items, an engine that is
\* through with a response has appended one tool_result per function_call item
\* of it, in order, each with its call's callId.
C2_EveryCallOfResponseAnswered ==
    \A f \in Frames :
        ThroughResponse(f) => ResultIds(SinceResponse(f)) = CallIds(f.resp)

\* C2 amended: the tool_results appended for a response are at every moment
\* those of the function_call items already executed, in the order received
\* and with their callIds; when the engine is through with the response they
\* are those of the function_call items before its first message item.
C2_ResultsMatchExecutedCalls ==
    \A f \in Frames :
        f.mark > 0 =>
            /\ Len(SinceResponse(f)) = Len(ResultIds(SinceResponse(f)))
            /\ ResultIds(SinceResponse(f)) = CallIds(SubSeq(f.resp, 1, Processed(f)))
            /\ ThroughResponse(f) =>
                  ResultIds(SinceResponse(f)) = CallIds(BeforeFirstMessage(f.resp))

\* an engine is through with a response of three calls, all answered in order
C2_Witness ==
    \E f \in Frames :
        /\ ThroughResponse(f)
        /\ Len(CallIds(f.resp)) = 3
        /\ ResultIds(SinceResponse(f)) = CallIds(f.resp)

\* C3: every caller of await_result, whether it blocked before the job ended or
\* called afterwards, is handed the one memoized result of the job, and the
\* job body is launched exactly once however many callers there are.
C3_AllCallersGetMemoizedResult ==
    /\ \A i \in 1..Len(delivered) :
          jobState = "Done" /\ delivered[i].val = Str(jobResult)
    /\ Len(delivered) = Cardinality({k \in 1..MaxCallers : callers[k] = "done"})
    /\ launches <= 1
    /\ jobState # "Pending" => launches = 1

\* three callers were served: two had blocked side by side, one came later
C3_Witness ==
    /\ Len(delivered) = 3
    /\ Cardinality({i \in 1..3 : delivered[i].blocked}) = 2
    /\ launches = 1

C5_JobStateMonotonic ==
    /\ [][/\ \/ jobState' = jobState
             \/ jobState = "Pending" /\ jobState' = "Running"
             \/ jobState = "Running" /\ jobState' \in {"Done", "Failed"}
          /\ jobState \in {"Done", "Failed"} => jobResult' = jobResult
          /\ jobState' # "Done" => jobResult' = NoText]_vars
    /\ [](\A i, j \in 1..Len(delivered) : delivered[i].val = delivered[j].val)

\* the job is Done and engines have read its result twice, once after blocking
C5_Witness ==
    /\ jobState = "Done"
    /\ Len(delivered) >= 2
    /\ \E i \in 1..Len(delivered) : delivered[i].blocked

\* C6: a function_call whose invocation fails at tool level never aborts the
\* engine run.
C6_ToolErrorsNeverAbort ==
    \A f \in Frames : f.pc # "aborted"

\* the registration that a start-up step is about to attempt
Attempt ==
    CASE phase = "import" -> "get_transcript"
      [] phase = "modules" -> cfg.funcs[cursor].name
      [] phase = "agents" -> cfg.agents[cursor]
      [] OTHER -> ""

\* C7: registering a name that is already in the registry fails with
\* DuplicateToolName and leaves the registry as it was.
C7_DuplicateLeavesRegistry ==
    [][(Attempt \in Names(registry) /\ phase' # phase) =>
          /\ setupErr' = "DuplicateToolName"
          /\ phase' = "failed"
          /\ registry' = registry]_vars

\* a second talk_to_user was refused and the first one is still registered
C7_Witness ==
    /\ setupErr = "DuplicateToolName"
    /\ "talk_to_user" \in Names(registry)
    /\ registry["talk_to_user"].src = "coordinator_tools"
    /\ cfg.funcs[2].name = "talk_to_user"

\* a nested engine returns in this step
NestedReturns ==
    /\ Depth >= 2
    /\ Depth' = Depth - 1
    /\ Top.pc = "items"
    /\ Item.kind = "message"

\* C8: the tool_result the parent gets for a delegating call carries the text
\* the nested engine returned (JSON-encoded, as every tool result), under the
\* callId of the delegating call.
C8_DelegationReturnsFinalText ==
    [][NestedReturns =>
          LET before == stack[Depth - 1]
              after == stack'[Depth - 1]
              call == before.resp[before.idx]
          IN /\ call.name = Top.agent
             /\ after.history = before.history \o
                   <<Entry("function_call_output", call.id, "",
                           json_dumps(Str(OutputText(Top.resp))), before.eng)>>]_vars

\* the root holds the answer "b" of the cleaner, which used two items for it
C8_Witness ==
    /\ Depth = 1
    /\ emitted = 3
    /\ \E i, j \in 1..Len(stack[1].history) :
          LET h == stack[1].history
          IN /\ IsCall(h[i]) /\ h[i].name = "cleaner"
             /\ h[j].kind = "function_call_output" /\ h[j].id = h[i].id
             /\ h[j].val = json_dumps(Str(<<"b">>))

\* C9: every entry of an engine's history was put there by that engine; while
\* an engine delegates its history does not change, and it gains exactly the
\* tool_result of the delegating call when the nested engine is over; a nested
\* engine starts from its own system prompt and optional message.
C9_HistoriesNotShared ==
    /\ [](/\ \A f \in Frames : \A i \in 1..Len(f.history) : f.history[i].own = f.eng
          /\ \A d, e \in 1..Depth : d # e => stack[d].eng # stack[e].eng)
    /\ [][/\ \A d \in 1..Depth :
                d < Depth /\ d < Depth' => stack'[d].history = stack[d].history
          /\ Depth' = Depth - 1 /\ Depth' >= 1 =>
                LET h == stack[Depth'].history
                    g == stack'[Depth'].history
                IN /\ Len(g) = Len(h) + 1
                   /\ SubSeq(g, 1, Len(h)) = h
                   /\ g[Len(g)].kind = "function_call_output"
                   /\ g[Len(g)].id = stack[Depth'].resp[stack[Depth'].idx].id
          /\ Depth' = Depth + 1 /\ Depth >= 1 =>
                LET g == stack'[Depth'].history
                IN /\ stack'[Depth].history = stack[Depth].history
                   /\ g[1].kind = "system"
                   /\ g[1].val = Str(AgentPrompt(stack'[Depth'].agent))
                   /\ Len(g) <= 2
                   /\ Len(g) = 2 => g[2].kind = "user"]_vars

\* a nested engine, started with a message, has taken a turn of its own
C9_Witness ==
    /\ Depth = 2
    /\ Len(stack[2].history) >= 4
    /\ stack[2].history[2].kind = "user"
    /\ stack[1].pc = "delegating"

\* the text the scripted oracle builds from the job's result
DoneText == <<"done: ">> \o json_dumps(Str(jobResult)).s

\* C10: against the scripted oracle the root engine eventually returns the
\* message built from the job's completed value.
C10_ScriptedRunReturnsJobValue ==
    (phase = "run") ~>
        (/\ outcome.status = "complete"
         /\ jobState = "Done"
         /\ outcome.text = DoneText)

\* the run returned the job's value after the tool call had to wait for it
C10_Witness ==
    /\ outcome.status = "complete"
    /\ outcome.text = DoneText
    /\ Len(delivered) = 1
    /\ delivered[1].blocked


\* the innermost engine hands a call to run_tool in this step: a nested engine
\* starts, the engine begins to wait for the job, or a result is appended
InvokesTool ==
    /\ Depth >= 1
    /\ \/ Depth' = Depth + 1
       \/ /\ Depth' = Depth
          /\ Top.pc # "await_job"
          /\ \/ stack'[Depth].pc = "await_job"
             \/ Len(ResultIds(stack'[Depth].history)) > Len(ResultIds(Top.history))

\* C11: every tool invocation of an engine is for the function_call item it
\* is looking at, an item of a response it has received and recorded; before
\* its first response an engine has invoked nothing; and a root engine whose
\* first response is one message returns that text with no tool invoked.
C11_NoFabricatedToolCall ==
    /\ [][InvokesTool =>
             /\ Top.mark > 0
             /\ Top.pc = "items"
             /\ IsCall(Top.resp[Top.idx])
             /\ Top.history[Top.mark - Len(Top.resp) + Top.idx] = Top.resp[Top.idx]
             /\ Depth' = Depth + 1 =>
                   /\ stack'[Depth'].agent = Top.resp[Top.idx].name
                   /\ stack'[Depth].history = Top.history
             /\ Depth' = Depth /\ stack'[Depth].history # Top.history =>
                   LET g == stack'[Depth].history
                   IN /\ Len(g) = Len(Top.history) + 1
                      /\ g[Len(g)].id = Top.resp[Top.idx].id]_vars
    /\ [](\A f \in Frames :
             f.mark = 0 => /\ f.pc \in {"request", "backend_error"}
                           /\ ResultIds(f.history) = << >>)
    /\ []((/\ outcome.status = "complete"
           /\ Len(stack[1].history) = 2
           /\ stack[1].history[2].kind = "message") =>
             /\ outcome.text = stack[1].history[2].val.s
             /\ engines = 1
             /\ delivered = << >>)

\* a nested engine, itself started for a call the root received, waits for the
\* job it invoked for a call of its own response
C11_Witness ==
    /\ Depth = 2
    /\ Top.pc = "await_job"
    /\ Top.resp[Top.idx].name = "get_transcript"
    /\ stack[1].resp[stack[1].idx].name = Top.agent


\* C12: the first message item of a response ends the loop, the text returned
\* is the text of that first message item, and no later item of the response
\* is processed or contributes to the returned text.
C12_FirstMessageTextReturned ==
    outcome.status = "complete" =>
        LET f == stack[1]
            first == BeforeFirstMessage(f.resp)
        IN /\ f.idx = Len(first) + 1
           /\ ResultIds(SinceResponse(f)) = CallIds(first)
           /\ outcome.text = f.resp[f.idx].val.s


\* the actions an engine shows to the outside
ActRequest(a, h) == [act |-> "request", tools |-> AgentTools(a), input |-> h]
ActInvoke(e) == [act |-> "invoke", name |-> e.name, args |-> e.val, id |-> e.id]
ActReturn(text) == [act |-> "return", text |-> text]

RECURSIVE ScanItems(_, _)
\* the next action of an engine that stands at item i of its response
ScanItems(f, i) ==
    IF i > Len(f.resp) THEN ActRequest(f.agent, f.history)
    ELSE IF IsCall(f.resp[i]) THEN ActInvoke(f.resp[i])
    ELSE IF f.resp[i].kind = "message" THEN ActReturn(OutputText(f.resp))
    ELSE ScanItems(f, i + 1)

\* the action an engine is in or takes next, read off where it stands in the
\* loop: the request, the invocation of the call at hand, or the return
NextAction(f) ==
    IF f.pc = "request" THEN ActRequest(f.agent, f.history)
    ELSE ScanItems(f, f.idx)

RECURSIVE ScanHistory(_, _, _)
\* the same, computed from the agent and the history alone: the first call
\* without a result is invoked, a message met before that is returned
ScanHistory(a, h, i) ==
    IF i > Len(h) THEN ActRequest(a, h)
    ELSE IF h[i].kind = "message" THEN ActReturn(JoinMessages(h))
    ELSE IF /\ IsCall(h[i])
            /\ \A j \in 1..Len(h) :
                  h[j].kind = "function_call_output" => h[j].id # h[i].id
         THEN ActInvoke(h[i])
    ELSE ScanHistory(a, h, i + 1)

\* the engine has not ended
Live(f) == f.pc \in {"request", "items", "await_job", "delegating"}

\* C13: the next action of an engine (the request it sends, the tool call it
\* makes, or the text it returns) is a function of its agent definition and
\* its history alone, so two engines that agree on both take the same action.
C13_NextActionFromHistory ==
    /\ \A f \in Frames : Live(f) => NextAction(f) = ScanHistory(f.agent, f.history, 1)
    /\ \A f, g \in Frames :
          (Live(f) /\ Live(g) /\ f.agent = g.agent /\ f.history = g.history) =>
             NextAction(f) = NextAction(g)

\* an engine stands at the third item of a response, a call, with the first
\* call answered and a reasoning item passed
C13_Witness ==
    \E f \in Frames :
        /\ f.pc = "items"
        /\ f.idx = 3
        /\ IsCall(f.resp[1])
        /\ f.resp[2].kind = "reasoning"
        /\ IsCall(f.resp[3])
        /\ Len(ResultIds(f.history)) = 1


IsPrefix(p, h) == Len(p) <= Len(h) /\ SubSeq(h, 1, Len(p)) = p

\* C14: within one engine the history only grows at its end, and every
\* backend request carries the whole history accumulated so far: the history
\* of each request extends that of the request before, and holds every output
\* item of the earlier responses and every tool_result appended so far.
C14_HistoryAppendOnly ==
    /\ [][\A d \in 1..Depth :
             (d <= Depth' /\ stack'[d].eng = stack[d].eng) =>
                /\ IsPrefix(stack[d].history, stack'[d].history)
                /\ IsPrefix(stack[d].sent, stack'[d].sent)
                /\ stack'[d].sent # stack[d].sent =>
                      stack'[d].sent = stack[d].history]_vars
    /\ [](\A f \in Frames :
             /\ IsPrefix(f.sent, f.history)
             /\ f.mark > 0 => f.sent \o f.resp = SubSeq(f.history, 1, f.mark)
             /\ f.mark = 0 => f.sent = << >>)

\* a request went out that carried an earlier response's call and its result,
\* and was answered
C14_Witness ==
    \E f \in Frames :
        /\ Len(CallIds(f.sent)) >= 1
        /\ ResultIds(f.sent) = CallIds(f.sent)
        /\ f.resp # << >>
        /\ Len(f.history) > Len(f.sent)


\* C15: an engine has at most one tool invocation in progress and the calls
\* before it are answered; a delegating engine waits at the delegating call
\* for the engine right above it, and while a nested engine runs no ancestor
\* changes: only the innermost engine takes steps.
C15_OneInvocationInnermostSteps ==
    /\ [](\A d \in 1..Depth :
             /\ d < Depth =>
                   /\ stack[d].pc = "delegating"
                   /\ stack[d + 1].agent = stack[d].resp[stack[d].idx].name
             /\ d = Depth => stack[d].pc # "delegating"
             /\ stack[d].pc \in {"await_job", "delegating"} =>
                   /\ IsCall(stack[d].resp[stack[d].idx])
                   /\ ResultIds(SinceResponse(stack[d])) =
                         CallIds(SubSeq(stack[d].resp, 1, stack[d].idx - 1)))
    /\ [][\A d \in 1..Depth :
             (d < Depth /\ d < Depth') => stack'[d] = stack[d]]_vars

\* the root waits at its second call for a nested engine that has been
\* answered and is at its own items
C15_Witness ==
    /\ Depth = 2
    /\ stack[1].pc = "delegating"
    /\ stack[1].idx = 2
    /\ Len(ResultIds(stack[1].history)) = 1
    /\ Top.pc = "items"


\* C16: an item that is neither a function_call nor a message (a reasoning
\* item or one of a kind the loop does not know) stands in the history as it
\* was received, and stepping over it changes nothing but the engine's place
\* in the response: no tool is invoked, the engine neither ends nor fails, the
\* next item is looked at, and after the last item the next request is due.
C16_InertItemsSkipped ==
    [][(/\ Running
        /\ Top.pc = "items"
        /\ Top.resp[Top.idx].kind \in {"reasoning", "other"}
        /\ stack' # stack) =>
          /\ Top.history[Top.mark - Len(Top.resp) + Top.idx] = Top.resp[Top.idx]
          /\ Depth' = Depth
          /\ stack'[Depth] =
                IF Top.idx = Len(Top.resp)
                THEN [Top EXCEPT !.pc = "request"]
                ELSE [Top EXCEPT !.idx = Top.idx + 1]
          /\ UNCHANGED <<engines, delivered, outcome>>]_vars

\* an engine is at its next request after a response of a reasoning item and
\* an item of unknown kind, and nothing was invoked
C16_Witness ==
    \E f \in Frames :
        /\ f.pc = "request"
        /\ Len(f.resp) = 2
        /\ f.resp[1].kind = "reasoning"
        /\ f.resp[2].kind = "other"
        /\ f.mark = Len(f.history)


HasMessage(h) == \E i \in 1..Len(h) : h[i].kind = "message"

\* C17: an engine completes only by processing a message item; while no
\* response has held a message item (empty responses too) the engine has not
\* ended and comes back to a request after every response, however many
\* there were; and once a response holds a message item, with every tool
\* call returning, the engine completes.
C17_OnlyMessageEndsLoop ==
    /\ [][(outcome'.status = "complete" /\ outcome.status # "complete") =>
             /\ Running
             /\ Top.pc = "items"
             /\ Top.resp[Top.idx].kind = "message"]_vars
    /\ []((Running /\ ~HasMessage(Top.history)) =>
             /\ outcome.status = "none"
             /\ Top.pc \in {"request", "items"})
    /\ (Running /\ ~HasMessage(Top.resp)) ~> (Running /\ Top.pc = "request")
    /\ (Running /\ HasMessage(Top.resp)) ~> (outcome.status = "complete")

\* the engine has had as many responses as the oracle gives, an empty one and
\* one of a call among them, none with a message, and is at a request again
C17_Witness ==
    /\ requests = MaxRequests
    /\ Running
    /\ Top.pc = "request"
    /\ ~HasMessage(Top.history)
    /\ Top.resp = << >>
    /\ Len(ResultIds(Top.history)) >= 1
    /\ outcome.status = "none"


\* a backend request of the innermost engine fails in this step
BackendFailsNow ==
    /\ Running
    /\ Top.pc = "request"
    /\ stack' # stack
    /\ \/ Depth' = Depth - 1
       \/ stack'[Depth].pc \notin {"request", "items"}

C19_ResolutionFailsOnlyAtSetup ==
    /\ [](setupErr # "none" =>
             /\ phase = "failed"
             /\ stack = << >>
             /\ engines = 0
             /\ emitted = 0)
    /\ [](phase = "run" =>
             /\ setupErr = "none"
             /\ \A a \in AgentNames :
                   a \in Names(registry) /\ Resolve(registry, AgentTools(a)).ok)
    /\ [][(/\ Running
           /\ Top.pc = "items"
           /\ IsCall(Top.resp[Top.idx])
           /\ Top.resp[Top.idx].name \in AgentNames
           /\ stack' # stack) =>
             /\ Depth' = Depth + 1
             /\ stack'[Depth'].agent = Top.resp[Top.idx].name
             /\ stack'[Depth].history = Top.history]_vars

\* the cleaner names a tool that does not exist: start-up ended with
\* UnknownAgent at its registration and no engine was ever started
C19_Witness ==
    /\ "summarize" \in cfg.cleaner
    /\ cfg.agents[1] = "cleaner"
    /\ setupErr = "UnknownAgent"
    /\ stack = << >>
    /\ emitted = 0


RECURSIVE Delegates(_, _, _)
Delegates(a, b, n) ==
    \/ b \in AgentTools(a)
    \/ /\ n > 0
       /\ \E c \in AgentNames \cap AgentTools(a) : Delegates(c, b, n - 1)

\* the configuration has an agent whose tool set leads back to itself
Cyclic == \E a \in AgentNames : Delegates(a, a, Cardinality(AgentNames))

C22_ArtifactAndHandleSetOnce ==
    /\ [][/\ audioPath' # audioPath =>
                /\ phase = "set_path"
                /\ audioPath = ""
                /\ stack = << >> /\ engines = 0 /\ emitted = 0
          /\ (starts' # starts \/ launches' # launches) =>
                /\ phase = "start"
                /\ starts = 0 /\ starts' = 1
                /\ launches = 0 /\ launches' = 1
                /\ stack = << >> /\ engines = 0 /\ emitted = 0]_vars
    /\ [](Depth >= 1 =>
             /\ audioPath = "audio.mp3"
             /\ starts = 1
             /\ launches = 1
             /\ startErr = "none")

\* a nested engine has been handed the transcript by get_transcript, after a
\* backend response to each engine and a delegation: path and handle are
\* those of start-up
C22_Witness ==
    /\ Depth = 2
    /\ Len(delivered) = 1
    /\ Len(ResultIds(Top.history)) = 1
    /\ audioPath = "audio.mp3"
    /\ starts = 1
    /\ launches = 1


\* the calls of a response that stand behind its first message item
CallsBehindMessage(r) ==
    {i \in 1..Len(r) :
        IsCall(r[i]) /\ \E j \in 1..(i - 1) : r[j].kind = "message"}

\* C23: the items of a response stand in the history together and in the
\* order received, behind what the request carried, before the result of any
\* of its calls; the results follow them, in the order of their calls, so
\* calls c1..cN are followed by r1..rN; and a call behind a message item of
\* the same response stays in the history of the ended engine with no result.
C23_ItemsThenResults ==
    \A f \in Frames :
        f.mark > 0 =>
            LET results == SinceResponse(f)
            IN /\ f.mark = Len(f.sent) + Len(f.resp)
               /\ SubSeq(f.history, Len(f.sent) + 1, f.mark) = f.resp
               /\ \A i \in 1..Len(results) :
                     results[i].kind = "function_call_output"
               /\ IsPrefix(ResultIds(results), CallIds(f.resp))
               /\ (f.pc = "request" /\ ~HasMessage(f.resp)) =>
                     ResultIds(results) = CallIds(f.resp)
               /\ f.pc = "complete" =>
                     \A i \in CallsBehindMessage(f.resp) :
                        /\ f.history[Len(f.sent) + i] = f.resp[i]
                        /\ \A j \in 1..Len(f.history) :
                              f.history[j].kind = "function_call_output" =>
                                 f.history[j].id # f.resp[i].id

\* the root has ended on a response of a call, a message and a second call:
\* the history ends with the three items and the result of the first call
C23_Witness ==
    /\ outcome.status = "complete"
    /\ Len(stack[1].resp) = 3
    /\ IsCall(stack[1].resp[1])
    /\ stack[1].resp[2].kind = "message"
    /\ IsCall(stack[1].resp[3])
    /\ Len(SinceResponse(stack[1])) = 1
    /\ stack[1].history[Len(stack[1].history)].id = stack[1].resp[1].id


\* C24: the transcription job never is Failed; it ends Done with a text, the
\* transcript or the error text load_audio_file made of its failure, and
\* whoever waits for it is handed that text as a plain result, never a
\* JobFailed error.
C24_JobNeverFails ==
    /\ jobState # "Failed"
    /\ jobState = "Done" <=> jobResult # NoText
    /\ jobState = "Done" => jobResult \in JobTexts
    /\ \A i \in 1..Len(delivered) :
          /\ jobState = "Done"
          /\ delivered[i].val = Str(jobResult)
    /\ \A f \in Frames : \A i \in 1..Len(f.history) :
          f.history[i].kind = "function_call_output" =>
             f.history[i].val # json_dumps(Err("JobFailed"))

\* the transcription failed inside load_audio_file: the job is Done with the
\* error text, and an engine that had waited for it holds it as the result
C24_Witness ==
    /\ jobState = "Done"
    /\ jobResult = <<"Transcription error: ", "decode">>
    /\ Len(delivered) = 1
    /\ delivered[1].blocked
    /\ delivered[1].val = Str(jobResult)
    /\ \E f \in Frames :
          f.history[Len(f.history)].val = json_dumps(Str(jobResult))


\* C25: the job is started before any engine exists, so an engine that waits
\* in get_transcript waits for a job that is Running or over, never Pending;
\* a Running job can end whatever the engines are doing, its end changes no
\* engine, and a waiting engine whose job is over can go on: the wait is never
\* a deadlock.
C25_NoDeadlockOnJob ==
    /\ [](Depth >= 1 => jobState # "Pending" /\ launches = 1)
    /\ [](jobState = "Running" => ENABLED JobFinish)
    /\ [](\A d \in 1..Depth :
             stack[d].pc = "await_job" =>
                /\ d = Depth
                /\ jobState \in {"Running", "Done"}
                /\ jobState = "Done" => ENABLED JobToolReturn)
    /\ [][jobState' # jobState =>
             /\ stack' = stack
             /\ outcome' = outcome
             /\ (Depth >= 1 => jobState = "Running")]_vars

\* a nested engine still waits in get_transcript for a job that has just
\* ended while the root waits for the nested engine
C25_Witness ==
    /\ Depth = 2
    /\ stack[1].pc = "delegating"
    /\ Top.pc = "await_job"
    /\ jobState = "Done"
    /\ delivered = << >>

====
